---------------------------- MODULE Spec2Model ----------------------------
(***************************************************************************)
(* Model of mcerp's umath module: a catalog of elementary mathematical     *)
(* functions, each of which either forwards a plain numeric value to the   *)
(* numpy primitive, or applies the primitive to the Monte Carlo sample     *)
(* array of an UncertainFunction and wraps the result in a new             *)
(* UncertainFunction whose mean is the mean of the new samples.            *)
(*                                                                         *)
(* Floating-point numbers are terms: a literal is <<"lit", n>>, the value  *)
(* numpy's ufunc u yields on t is <<u, t>>, hypot of a and b is            *)
(* <<"hypot", a, b>> and the mean of an array a is <<"mean", a>>.  Two     *)
(* floats are equal in the model exactly when they were computed by the    *)
(* same primitives from the same literals, in the same order.              *)
(***************************************************************************)
EXTENDS Integers, Sequences, FiniteSets

\* Longest sample array and longest plain array.
MaxLen == 2
\* Literals 1..MaxVal are the numbers the inputs are built from.
MaxVal == 2
\* hypot(x, y) takes two arguments, so a call refers to at most two objects.
Arity == 2

VARIABLES
    heap,       \* the objects alive: heap[i] = [cls, mean, mcpts]
    exposes,    \* attribute names under which an UncertainFunction exposes its sample array
    last        \* the call in progress or just returned: [fn, x, y, out]

vars == <<heap, exposes, last>>

-----------------------------------------------------------------------------
(* Numbers and arrays *)

Lit(n) == <<"lit", n>>

Lits == {Lit(n) : n \in 1..MaxVal}

ArraysOf(S, n) == UNION {[1..k -> S] : k \in 0..n}

SampleArrays == ArraysOf(Lits, MaxLen)

\* Classes of the values that carry a sample array and a nominal value.
\* "UncertainFunction" is the class umath imports; "AltUncertain" is some
\* other implementation of the same capability, not a subclass of it.
Classes == {"UncertainFunction", "AltUncertain"}

\* The two attribute names umath reads the sample array through.
SampleAttrs == {"_mcpts", "mcpts"}

\* The objects the collaborator has constructed.  The mean of such an object
\* is whatever the collaborator stored; umath never reads it.  The samples
\* of an AltUncertain are never read either, so one such object is enough.
Objects ==
    [cls : {"UncertainFunction"}, mean : {Lit(1)}, mcpts : SampleArrays]
    \cup [cls : {"AltUncertain"}, mean : {Lit(1)}, mcpts : {<<Lit(1)>>}]

\* Plain arrays: one of each length, running through the literals.
PlainArrays == {[i \in 1..n |-> Lit(((i - 1) % MaxVal) + 1)] : n \in 0..MaxLen}

\* Arguments of a call: a plain scalar, a plain array, or a reference to an object.
Scalar(t) == [kind |-> "scalar", id |-> 0, a |-> <<t>>]
Array(a) == [kind |-> "array", id |-> 0, a |-> a]
Ref(i) == [kind |-> "ref", id |-> i, a |-> <<>>]

PlainArgs == {Scalar(t) : t \in Lits} \cup {Array(a) : a \in PlainArrays}

Args == PlainArgs \cup {Ref(i) : i \in 1..Len(heap)}

NoArg == [kind |-> "none", id |-> 0, a |-> <<>>]

\* Outcomes of a call.
Raise(e, b) == [kind |-> "raise", branch |-> b, err |-> e, id |-> 0, shape |-> "", a |-> <<>>]
Plain(shape, a) == [kind |-> "plain", branch |-> "passthrough", err |-> "", id |-> 0, shape |-> shape, a |-> a]
Uncertain(i) == [kind |-> "uncertain", branch |-> "propagate", err |-> "", id |-> i, shape |-> "", a |-> <<>>]

NoOut == [kind |-> "none", branch |-> "", err |-> "", id |-> 0, shape |-> "", a |-> <<>>]

NoCall == [fn |-> "", x |-> NoArg, y |-> NoArg, out |-> NoOut]

-----------------------------------------------------------------------------
(* numpy *)

\* A ufunc of one argument, applied element by element.
np_ufunc(u, a) == [i \in 1..Len(a) |-> <<u, a[i]>>]

np_mean(a) == <<"mean", a>>

\* numpy's broadcasting of two one-dimensional operands (a scalar behaves as
\* an operand of length 1): equal lengths, or one of them of length 1.
np_broadcastable(a, b) == Len(a) = Len(b) \/ Len(a) = 1 \/ Len(b) = 1

np_hypot_arrays(a, b) ==
    LET n == IF Len(a) = 1 THEN Len(b) ELSE Len(a)
    IN  [i \in 1..n |-> <<"hypot", a[IF Len(a) = 1 THEN 1 ELSE i],
                                   b[IF Len(b) = 1 THEN 1 ELSE i]>>]

\* A numpy primitive called on a plain argument.  An object that is not a
\* number or an array of numbers has no loop in the ufunc: TypeError.
np_call1(u, x) ==
    IF x.kind = "ref" THEN Raise("TypeError", "passthrough")
    ELSE Plain(x.kind, np_ufunc(u, x.a))

np_call_hypot(x, y) ==
    IF x.kind = "ref" \/ y.kind = "ref" THEN Raise("TypeError", "passthrough")
    ELSE IF ~np_broadcastable(x.a, y.a) THEN Raise("ValueError", "passthrough")
    ELSE Plain(IF x.kind = "scalar" /\ y.kind = "scalar" THEN "scalar" ELSE "array",
               np_hypot_arrays(x.a, y.a))

-----------------------------------------------------------------------------
(* mcerp *)

isinstance(x) == x.kind = "ref" /\ heap[x.id].cls = "UncertainFunction"

\* UncertainFunction(mean, mcpts): a new object; nothing else changes.
UncertainFunction(mean, mcpts) ==
    [heap |-> Append(heap, [cls |-> "UncertainFunction", mean |-> mean, mcpts |-> mcpts]),
     out  |-> Uncertain(Len(heap) + 1)]

\* A call that creates no object.
Return(out) == [heap |-> heap, out |-> out]

\* to_uncertain_func(v): an UncertainFunction is returned as it is; a plain
\* scalar becomes a constant sample array as long as the other argument's;
\* anything else cannot be converted.
to_uncertain_func(v, other) ==
    IF isinstance(v) THEN [ok |-> TRUE, id |-> v.id, mcpts |-> heap[v.id].mcpts]
    ELSE IF v.kind = "scalar"
    THEN LET n == IF isinstance(other) THEN Len(heap[other.id].mcpts) ELSE 1
         IN  [ok |-> TRUE, id |-> 0, mcpts |-> [i \in 1..n |-> v.a[1]]]
    ELSE [ok |-> FALSE, id |-> 0, mcpts |-> <<>>]

-----------------------------------------------------------------------------
(* umath *)

\* Propagate1 with the mean taken as the primitive of the input's mean.
Propagate1_PointEstimate(x, attr, u) ==
    IF isinstance(x)
    THEN IF attr \notin exposes
         THEN Return(Raise("AttributeError", "propagate"))
         ELSE LET mcpts == np_ufunc(u, heap[x.id].mcpts)
              IN  UncertainFunction(<<u, heap[x.id].mean>>, mcpts)
    ELSE Return(np_call1(u, x))

\* Propagate1 writing the new samples into the argument and returning it.
Propagate1_InPlace(x, attr, u) ==
    IF isinstance(x)
    THEN IF attr \notin exposes
         THEN Return(Raise("AttributeError", "propagate"))
         ELSE LET mcpts == np_ufunc(u, heap[x.id].mcpts)
              IN  [heap |-> [heap EXCEPT ![x.id] = [cls |-> "UncertainFunction",
                                                    mean |-> np_mean(mcpts),
                                                    mcpts |-> mcpts]],
                   out  |-> Uncertain(x.id)]
    ELSE Return(np_call1(u, x))

\* The body every single-argument function repeats, with the attribute it
\* reads the samples through and the numpy primitive it applies.
Propagate1(x, attr, u) ==
    IF isinstance(x)
    THEN IF attr \notin exposes
         THEN Return(Raise("AttributeError", "propagate"))
         ELSE LET mcpts == np_ufunc(u, heap[x.id].mcpts)
              IN  UncertainFunction(np_mean(mcpts), mcpts)
    ELSE Return(np_call1(u, x))

abs(x) == Propagate1(x, "_mcpts", "abs")
acos(x) == Propagate1(x, "_mcpts", "arccos")
acosh(x) == Propagate1(x, "mcpts", "arccosh")
asin(x) == Propagate1(x, "mcpts", "arcsin")
asinh(x) == Propagate1(x, "mcpts", "arcsinh")
atan(x) == Propagate1(x, "mcpts", "arctan")
atanh(x) == Propagate1(x, "mcpts", "arctanh")
ceil(x) == Propagate1(x, "mcpts", "ceil")
cos(x) == Propagate1(x, "mcpts", "cos")
cosh(x) == Propagate1(x, "mcpts", "cosh")
degrees(x) == Propagate1(x, "mcpts", "degrees")
exp(x) == Propagate1(x, "mcpts", "exp")
expm1(x) == Propagate1(x, "mcpts", "expm1")
fabs(x) == Propagate1(x, "mcpts", "fabs")
floor(x) == Propagate1(x, "mcpts", "floor")
log(x) == Propagate1(x, "mcpts", "log")
\* ln as the base-10 logarithm.
ln_Log10(x) == Propagate1(x, "mcpts", "log10")
ln(x) == log(x)
log10(x) == Propagate1(x, "mcpts", "log10")
log1p(x) == Propagate1(x, "mcpts", "log1p")
radians(x) == Propagate1(x, "mcpts", "radians")
\* sin with the primitive of the function above it.
sin_CopyPaste(x) == Propagate1(x, "mcpts", "radians")
sin(x) == Propagate1(x, "mcpts", "sin")
sinh(x) == Propagate1(x, "mcpts", "sinh")
sqrt(x) == Propagate1(x, "mcpts", "sqrt")
tan(x) == Propagate1(x, "mcpts", "tan")
tanh(x) == Propagate1(x, "mcpts", "tanh")
trunc(x) == Propagate1(x, "mcpts", "trunc")

hypot(x, y) ==
    IF isinstance(x) \/ isinstance(x)
    THEN LET ufx == to_uncertain_func(x, y)
             ufy == to_uncertain_func(y, x)
         IN  IF ~ufx.ok \/ ~ufy.ok
             THEN Return(Raise("NotUpcast", "propagate"))
             ELSE IF "_mcpts" \notin exposes
             THEN Return(Raise("AttributeError", "propagate"))
             ELSE IF ~np_broadcastable(ufx.mcpts, ufy.mcpts)
             THEN Return(Raise("ValueError", "propagate"))
             ELSE LET mcpts == np_hypot_arrays(ufx.mcpts, ufy.mcpts)
                  IN  UncertainFunction(np_mean(mcpts), mcpts)
    ELSE Return(np_call_hypot(x, y))

\* The single-argument names the module exports.
SingleArg ==
    {"abs", "fabs", "sqrt", "degrees", "radians",
     "acos", "acosh", "asin", "asinh", "atan", "atanh",
     "cos", "cosh", "sin", "sinh", "tan", "tanh",
     "exp", "expm1", "ln", "log", "log1p", "log10",
     "ceil", "floor", "trunc"}

\* umath.<fn>(x)
Call1(fn, x) ==
    CASE fn = "abs" -> abs(x)
      [] fn = "acos" -> acos(x)
      [] fn = "acosh" -> acosh(x)
      [] fn = "asin" -> asin(x)
      [] fn = "asinh" -> asinh(x)
      [] fn = "atan" -> atan(x)
      [] fn = "atanh" -> atanh(x)
      [] fn = "ceil" -> ceil(x)
      [] fn = "cos" -> cos(x)
      [] fn = "cosh" -> cosh(x)
      [] fn = "degrees" -> degrees(x)
      [] fn = "exp" -> exp(x)
      [] fn = "expm1" -> expm1(x)
      [] fn = "fabs" -> fabs(x)
      [] fn = "floor" -> floor(x)
      [] fn = "ln" -> ln(x)
      [] fn = "log" -> log(x)
      [] fn = "log10" -> log10(x)
      [] fn = "log1p" -> log1p(x)
      [] fn = "radians" -> radians(x)
      [] fn = "sin" -> sin(x)
      [] fn = "sinh" -> sinh(x)
      [] fn = "sqrt" -> sqrt(x)
      [] fn = "tan" -> tan(x)
      [] fn = "tanh" -> tanh(x)
      [] fn = "trunc" -> trunc(x)

-----------------------------------------------------------------------------
(* The state machine: the collaborator's objects exist, one call at a time
   is made on them, and its result is dropped before the next call. *)

Init ==
    /\ heap \in ArraysOf(Objects, Arity)
    /\ exposes \in (SUBSET SampleAttrs) \ {{}}
    /\ last = NoCall

CallSingle ==
    /\ last = NoCall
    /\ \E fn \in SingleArg, x \in Args :
          LET r == Call1(fn, x)
          IN  /\ heap' = r.heap
              /\ last' = [fn |-> fn, x |-> x, y |-> NoArg, out |-> r.out]
    /\ UNCHANGED exposes

CallHypot ==
    /\ last = NoCall
    /\ \E x \in Args, y \in Args :
          LET r == hypot(x, y)
          IN  /\ heap' = r.heap
              /\ last' = [fn |-> "hypot", x |-> x, y |-> y, out |-> r.out]
    /\ UNCHANGED exposes

\* The caller drops the result; an object no longer referenced is discarded.
Discard ==
    /\ last # NoCall
    /\ heap' = IF last.out.kind = "uncertain" THEN SubSeq(heap, 1, Len(heap) - 1) ELSE heap
    /\ last' = NoCall
    /\ UNCHANGED exposes

Next == CallSingle \/ CallHypot \/ Discard

Spec == Init /\ [][Next]_vars

-----------------------------------------------------------------------------
(* The vocabulary of the claims *)

\* The numpy primitive the catalog names for each single-argument function.
CatalogPrimitive(fn) ==
    CASE fn = "abs" -> "abs"
      [] fn = "acos" -> "arccos"
      [] fn = "acosh" -> "arccosh"
      [] fn = "asin" -> "arcsin"
      [] fn = "asinh" -> "arcsinh"
      [] fn = "atan" -> "arctan"
      [] fn = "atanh" -> "arctanh"
      [] fn \in {"ln", "log"} -> "log"
      [] OTHER -> fn

Called == last # NoCall
IsPlain(v) == v.kind \in {"scalar", "array"}
\* An Uncertain Quantity of the class umath imports, and one of another class.
IsUncertainFunction(v) == v.kind = "ref" /\ heap[v.id].cls = "UncertainFunction"
IsAltUncertain(v) == v.kind = "ref" /\ heap[v.id].cls = "AltUncertain"
Samples(v) == heap[v.id].mcpts
ResultSamples == heap[last.out.id].mcpts
ResultMean == heap[last.out.id].mean

\* Two outcomes that differ at most in which new object they return.
SameOutcome(o1, h1, o2, h2) ==
    /\ [o1 EXCEPT !.id = 0] = [o2 EXCEPT !.id = 0]
    /\ o1.kind = "uncertain" => h1[o1.id] = h2[o2.id]

-----------------------------------------------------------------------------
(* The claims *)

\* C1: for every single-argument function F with primitive f and every
\* Uncertain Quantity U, F(U) is an Uncertain Quantity with as many samples
\* as U, and its sample i is f of U's sample i.
C1_IndexCorrespondence ==
    (Called /\ last.fn \in SingleArg /\ IsUncertainFunction(last.x)) =>
        /\ last.out.kind = "uncertain"
        /\ Len(ResultSamples) = Len(Samples(last.x))
        /\ \A i \in 1..Len(ResultSamples) :
              ResultSamples[i] = <<CatalogPrimitive(last.fn), Samples(last.x)[i]>>

\* C2: whenever a catalog function (single-argument or hypot) returns an
\* Uncertain Quantity, its nominal value is the mean of its own samples.
C2_NominalIsMean ==
    (Called /\ last.out.kind = "uncertain") => ResultMean = np_mean(ResultSamples)

\* log of an UncertainFunction with two different samples: the mean of the
\* result is the mean of the logs, not the log of the input's mean.
C2_Witness ==
    /\ last.fn = "log"
    /\ last.out.kind = "uncertain"
    /\ Len(ResultSamples) = 2
    /\ ResultSamples[1] # ResultSamples[2]
    /\ ResultMean # <<"log", heap[last.x.id].mean>>

\* C3: on plain arguments every catalog function returns what its numpy
\* primitive returns on them, as a plain value of the same shape.
C3_PassThrough ==
    /\ (Called /\ last.fn \in SingleArg /\ IsPlain(last.x)) =>
          /\ last.out.kind = "plain"
          /\ last.out.shape = last.x.kind
          /\ last.out.a = [i \in 1..Len(last.x.a) |->
                              <<CatalogPrimitive(last.fn), last.x.a[i]>>]
    /\ (last.fn = "hypot" /\ IsPlain(last.x) /\ IsPlain(last.y)) =>
          /\ last.out.kind # "uncertain"
          /\ last.out = np_call_hypot(last.x, last.y)

\* sin of a plain array of two numbers.
C3_Witness ==
    /\ last.fn = "sin"
    /\ last.x.kind = "array"
    /\ Len(last.x.a) = 2
    /\ last.out.kind = "plain"

\* C4: hypot(c, U) with c a plain scalar and U an Uncertain Quantity of n
\* samples is an Uncertain Quantity of n samples, sample i being
\* hypot(c, U's sample i).
C4_TwoArgumentCoercion ==
    (last.fn = "hypot" /\ last.x.kind = "scalar" /\ IsUncertainFunction(last.y)) =>
        /\ last.out.kind = "uncertain"
        /\ Len(ResultSamples) = Len(Samples(last.y))
        /\ \A i \in 1..Len(ResultSamples) :
              ResultSamples[i] = <<"hypot", last.x.a[1], Samples(last.y)[i]>>

\* C5: hypot(x, y), each argument a plain scalar or an Uncertain Quantity,
\* takes the propagating branch exactly when at least one of the two is an
\* Uncertain Quantity (the claim adds that it then returns an Uncertain
\* Quantity).
C5_HypotDispatch ==
    (/\ last.fn = "hypot"
     /\ last.x.kind = "scalar" \/ IsUncertainFunction(last.x)
     /\ last.y.kind = "scalar" \/ IsUncertainFunction(last.y)) =>
        (last.out.branch = "propagate"
            <=> (IsUncertainFunction(last.x) \/ IsUncertainFunction(last.y)))

C7_AliasEquivalence ==
    (last.fn = "ln") =>
        LET r == log(last.x)
        IN  SameOutcome(last.out, heap, r.out, r.heap)

\* ln of an UncertainFunction that has samples.
C7_Witness ==
    /\ last.fn = "ln"
    /\ last.out.kind = "uncertain"
    /\ Len(ResultSamples) > 0

\* C8: a call changes no object that existed before it, and an Uncertain
\* Quantity it returns is a new object, none of the arguments.
C8_NoMutation ==
    [][(last = NoCall /\ last' # NoCall) =>
          /\ Len(heap') >= Len(heap)
          /\ \A i \in 1..Len(heap) : heap'[i] = heap[i]
          /\ last'.out.kind = "uncertain" =>
                /\ last'.out.id \in (1..Len(heap')) \ (1..Len(heap))
                /\ last'.out.id \notin {last'.x.id, last'.y.id}]_vars

\* hypot of two UncertainFunctions, both returned unchanged by the coercion,
\* has returned an Uncertain Quantity.
C8_Witness ==
    /\ last.fn = "hypot"
    /\ IsUncertainFunction(last.x)
    /\ IsUncertainFunction(last.y)
    /\ last.out.kind = "uncertain"
    /\ Len(ResultSamples) > 0

\* C9: a value of another implementation of the uncertain-quantity
\* capability is classified as an Uncertain Quantity by every catalog
\* function: it is never sent down the plain branch.
C9_CapabilityCheck ==
    (Called /\ (IsAltUncertain(last.x) \/ IsAltUncertain(last.y))) =>
        last.out.branch = "propagate"

\* C10: on a given Uncertain Quantity either every single-argument function
\* reaches its primitive or none does.
C10_CatalogUniformity ==
    (Called /\ last.fn \in SingleArg /\ IsUncertainFunction(last.x)) =>
        \A g \in SingleArg :
            (Call1(g, last.x).out.kind = "uncertain") <=> (last.out.kind = "uncertain")
=============================================================================
